---- MODULE Spec2Model ----
(***************************************************************************)
(* Key de-duplication and key sorting of JSON documents                    *)
(* (prettier-rm-duplicate-json-keys).                                      *)
(*                                                                         *)
(* Strings are sequences of UTF-16 code units (48..57 digits, 65..90 upper *)
(* case, 97..122 lower case).  A JSON value, in text, as a JavaScript      *)
(* value and as a syntax tree, is a record                                 *)
(*     [t |-> "obj" | "arr" | "num" | "null" | "SpreadElement" | "bad",    *)
(*      n |-> Nat,                                                         *)
(*      kids |-> sequence of [k |-> string, v |-> value,                   *)
(*                            type |-> string, keyType |-> string]]        *)
(* where kids are the members of an object in order (k the key) or the     *)
(* elements of an array in order (k the empty string).  type and keyType   *)
(* are the node types of the member and of its key in the syntax tree:     *)
(* "ObjectProperty" with a "StringLiteral" key for every member of a JSON  *)
(* text and of a JavaScript object.  "bad" is a text that is not JSON.     *)
(***************************************************************************)
EXTENDS Integers, Sequences, FiniteSets

VARIABLES
    text,        \* the document handed to the plugin
    options,     \* the prettier options of the invocation
    via,         \* the entry point that has run on this document
    hist,        \* the results of the successive runs, oldest first
    keys,        \* an array of key strings about to be sorted
    sortOrder,   \* the sort order the array is sorted with
    sortedKeys,  \* the array after Array.prototype.sort
    pc           \* "keys" before the array is sorted, "sorted" after

vars == <<text, options, via, hist, keys, sortOrder, sortedKeys, pc>>

----------------------------------------------------------------------------
(* Bounds of the model *)

MaxKeys == 3      \* longest array of keys sorted on its own
MaxProps == 3     \* most members of a flat document
MaxTop == 2       \* most members of a document that nests a value
MaxNested == 3    \* most members of a nested object
MaxRuns == 2      \* times the plugin is run on its own output
MaxLoose == 2     \* most members of an object that is not JSON

----------------------------------------------------------------------------
(* Strings *)

\* a < b for strings: code unit by code unit, a proper prefix is smaller
RECURSIVE StrLess(_, _)
StrLess(a, b) ==
    IF b = <<>> THEN FALSE
    ELSE IF a = <<>> THEN TRUE
    ELSE IF Head(a) # Head(b) THEN Head(a) < Head(b)
    ELSE StrLess(Tail(a), Tail(b))

StrGreater(a, b) == StrLess(b, a)

LowerChar(c) == IF c >= 65 /\ c <= 90 THEN c + 32 ELSE c

toLowerCase(s) == [i \in 1..Len(s) |-> LowerChar(s[i])]

IsDigit(c) == c >= 48 /\ c <= 57

\* the match of /^(\d+)/u : the leading run of digits, <<>> when there is none
RECURSIVE integerPrefix(_)
integerPrefix(s) ==
    IF s = <<>> \/ ~IsDigit(Head(s)) THEN <<>>
    ELSE <<Head(s)>> \o integerPrefix(Tail(s))

RECURSIVE parseInt(_)
parseInt(d) ==
    IF d = <<>> THEN 0
    ELSE 10 * parseInt(SubSeq(d, 1, Len(d) - 1)) + (d[Len(d)] - 48)

\* String(i) of a non-negative integer
RECURSIVE IndexString(_)
IndexString(i) ==
    IF i < 10 THEN <<48 + i>>
    ELSE IndexString(i \div 10) \o <<48 + (i % 10)>>

----------------------------------------------------------------------------
(* Comparators *)

lexicalSort(a, b) ==
    IF StrGreater(a, b) THEN 1
    ELSE IF StrLess(a, b) THEN -1
    ELSE 0

\* numericSort with the integer prefixes never compared
numericSortNoPrefix(a, b) == IF StrGreater(a, b) THEN 1 ELSE -1

numericSort(a, b) ==
    LET aPrefixResult == integerPrefix(a)
        bPrefixResult == integerPrefix(b)
        difference == parseInt(aPrefixResult) - parseInt(bPrefixResult)
    IN  IF aPrefixResult # <<>> /\ bPrefixResult # <<>> /\ difference # 0
        THEN difference
        ELSE IF StrGreater(a, b) THEN 1 ELSE -1

noneSort(a, b) == 0

\* A sort function is the sequence of the names it is composed of, outermost
\* first: <<"caseInsensitiveSort", "reverseSort", "numericSort">> is
\* caseInsensitiveSort(reverseSort(numericSort)).  Call applies one.
RECURSIVE Call(_, _, _)

reverseSort(sortFunction, a, b) == -1 * Call(sortFunction, a, b)

caseInsensitiveSort(sortFunction, a, b) ==
    LET folded == Call(sortFunction, toLowerCase(a), toLowerCase(b))
    IN  IF folded # 0 THEN folded ELSE Call(sortFunction, a, b)

Call(f, a, b) ==
    CASE Head(f) = "lexicalSort" -> lexicalSort(a, b)
      [] Head(f) = "numericSort" -> numericSort(a, b)
      [] Head(f) = "noneSort" -> noneSort(a, b)
      [] Head(f) = "reverseSort" -> reverseSort(Tail(f), a, b)
      [] Head(f) = "caseInsensitiveSort" -> caseInsensitiveSort(Tail(f), a, b)

PolicyNames ==
    { "caseInsensitiveLexical", "caseInsensitiveNumeric",
      "caseInsensitiveReverseLexical", "caseInsensitiveReverseNumeric",
      "lexical", "numeric", "reverseLexical", "reverseNumeric", "none" }

\* categorySortFunctions[name], for a name of the registry
categorySortFunctions(name) ==
    CASE name = "caseInsensitiveLexical" -> <<"caseInsensitiveSort", "lexicalSort">>
      [] name = "caseInsensitiveNumeric" -> <<"caseInsensitiveSort", "numericSort">>
      [] name = "caseInsensitiveReverseLexical" ->
            <<"caseInsensitiveSort", "reverseSort", "lexicalSort">>
      [] name = "caseInsensitiveReverseNumeric" ->
            <<"caseInsensitiveSort", "reverseSort", "numericSort">>
      [] name = "lexical" -> <<"lexicalSort">>
      [] name = "numeric" -> <<"numericSort">>
      [] name = "reverseLexical" -> <<"reverseSort", "lexicalSort">>
      [] name = "reverseNumeric" -> <<"reverseSort", "numericSort">>
      [] name = "none" -> <<"noneSort">>

----------------------------------------------------------------------------
(* Option strings.  The text of a sort order option is                     *)
(*   [form |-> "undefined"]            the option is not set               *)
(*   [form |-> "word", word |-> w]     the bare word w (not JSON)          *)
(*   [form |-> "json", entries |-> e]  the JSON text of an object whose    *)
(*        members are e, a sequence of [k |-> key, t |-> "str" | "null" |  *)
(*        "num", s |-> the string of a "str" entry]                        *)
(*   [form |-> "array"]                the JSON text of an array           *)
(*   [form |-> "broken"]               a text that starts as JSON and is   *)
(*        cut short                                                        *)
(* All carry the three fields word, entries and form.                      *)
(***************************************************************************)

Undefined == [form |-> "undefined", word |-> "", entries |-> <<>>]
Word(w) == [form |-> "word", word |-> w, entries |-> <<>>]
JsonObjectText(e) == [form |-> "json", word |-> "", entries |-> e]
JsonArrayText == [form |-> "array", word |-> "", entries |-> <<>>]
BrokenText == [form |-> "broken", word |-> "", entries |-> <<>>]

StrEntry(key, s) == [k |-> key, t |-> "str", s |-> s]
NullEntry(key) == [k |-> key, t |-> "null", s |-> ""]
NumEntry(key) == [k |-> key, t |-> "num", s |-> ""]

\* JSON.parse of an option string succeeds
OptionParses(o) == o.form \in {"json", "array"}

\* parsedJsonSortOrder[key] || null : the policy name, "" standing for null.
\* A key listed twice in the text has the value of its last member.  An
\* entry that is neither a string nor null never gets here: parseOptions
\* has thrown on it.
RECURSIVE EntryOf(_, _)
EntryOf(entries, key) ==
    IF entries = <<>> THEN ""
    ELSE LET last == entries[Len(entries)]
         IN  IF last.k = key
             THEN (IF last.t = "str" THEN last.s ELSE "")
             ELSE EntryOf(SubSeq(entries, 1, Len(entries) - 1), key)

evaluateSortEntry(value, entry) ==
    IF entry = "" THEN 0 ELSE Call(categorySortFunctions(entry), value, value)

\* The comparator createSortCompareFunction returns, as a record: custom =
\* TRUE with the parsed map, or the sort function the order resolved to.
createSortCompareFunction(jsonSortOrder) ==
    IF OptionParses(jsonSortOrder)
    THEN [custom |-> TRUE, fn |-> <<>>, entries |-> jsonSortOrder.entries]
    ELSE [custom |-> FALSE,
          fn |-> IF jsonSortOrder.word \in PolicyNames
                 THEN categorySortFunctions(jsonSortOrder.word)
                 ELSE <<"lexicalSort">>,
          entries |-> <<>>]

\* createSortFunction of processJson
createSortFunction(order) ==
    [custom |-> FALSE,
     fn |-> IF order.form = "word" /\ order.word \in PolicyNames
            THEN categorySortFunctions(order.word)
            ELSE <<"lexicalSort">>,
     entries |-> <<>>]

\* a call of the comparator record cmp on (a, b)
CallCompare(cmp, a, b) ==
    IF cmp.custom
    THEN LET aResult == evaluateSortEntry(a, EntryOf(cmp.entries, a))
             bResult == evaluateSortEntry(b, EntryOf(cmp.entries, b))
         IN  IF aResult # bResult THEN aResult - bResult ELSE lexicalSort(a, b)
    ELSE Call(cmp.fn, a, b)

----------------------------------------------------------------------------
(* Array.prototype.sort as V8, the engine of Node.js, runs it on fewer     *)
(* than 64 elements: the leading run is found by comparing each element    *)
(* with the one before it (and reversed when strictly descending), the     *)
(* rest is inserted by binary insertion.  The operators work on the        *)
(* sequence of positions p of the array ks being sorted.                   *)

Reverse(s) == [i \in 1..Len(s) |-> s[Len(s) + 1 - i]]

RECURSIVE RunLength(_, _, _, _, _)
RunLength(ks, fn, isDescending, idx, runLength) ==
    IF idx > Len(ks) THEN runLength
    ELSE LET order == CallCompare(fn, ks[idx], ks[idx - 1])
         IN  IF (isDescending /\ order >= 0) \/ (~isDescending /\ order < 0)
             THEN runLength
             ELSE RunLength(ks, fn, isDescending, idx + 1, runLength + 1)

RECURSIVE BinarySearch(_, _, _, _, _, _)
BinarySearch(ks, fn, p, pivot, left, right) ==
    IF left >= right THEN left
    ELSE LET mid == left + ((right - left) \div 2)
             order == CallCompare(fn, ks[pivot], ks[p[mid]])
         IN  IF order < 0
             THEN BinarySearch(ks, fn, p, pivot, left, mid)
             ELSE BinarySearch(ks, fn, p, pivot, mid + 1, right)

RECURSIVE BinaryInsertionSort(_, _, _, _)
BinaryInsertionSort(ks, fn, p, start) ==
    IF start > Len(p) THEN p
    ELSE LET pivot == p[start]
             at == BinarySearch(ks, fn, p, pivot, 1, start)
             moved == SubSeq(p, 1, at - 1) \o <<pivot>> \o SubSeq(p, at, start - 1)
                      \o SubSeq(p, start + 1, Len(p))
         IN  BinaryInsertionSort(ks, fn, moved, start + 1)

\* the positions of ks in the order the sort leaves them
SortPermutation(ks, fn) ==
    LET n == Len(ks)
        id == [i \in 1..n |-> i]
    IN  IF n < 2 THEN id
        ELSE LET isDescending == CallCompare(fn, ks[2], ks[1]) < 0
                 run == RunLength(ks, fn, isDescending, 3, 2)
                 made == IF isDescending
                         THEN Reverse(SubSeq(id, 1, run)) \o SubSeq(id, run + 1, n)
                         ELSE id
             IN  BinaryInsertionSort(ks, fn, made, run + 1)

\* ks.sort(fn)
ArraySort(ks, fn) ==
    LET p == SortPermutation(ks, fn) IN [i \in 1..Len(ks) |-> ks[p[i]]]

----------------------------------------------------------------------------
(* JSON values *)

Num(n) == [t |-> "num", n |-> n, kids |-> <<>>]
Null == [t |-> "null", n |-> 0, kids |-> <<>>]
Obj(members) == [t |-> "obj", n |-> 0, kids |-> members]
\* a member of an object as the parser reads it: key: value
Property(key, keyType, value) ==
    [k |-> key, v |-> value, type |-> "ObjectProperty", keyType |-> keyType]
\* "key": value
Member(key, value) == Property(key, "StringLiteral", value)
Element(value) == [k |-> <<>>, v |-> value, type |-> "", keyType |-> ""]
\* ...x among the members of an object, and among the elements of an array
SpreadProperty == [k |-> <<>>, v |-> Null, type |-> "SpreadElement", keyType |-> ""]
SpreadElement == [t |-> "SpreadElement", n |-> 0, kids |-> <<>>]
Arr(elements) ==
    [t |-> "arr", n |-> 0,
     kids |-> [i \in 1..Len(elements) |-> Element(elements[i])]]
NotJson == [t |-> "bad", n |-> 0, kids |-> <<>>]

\* the text is JSON: JSON.parse throws a SyntaxError on any other text,
\* among them a text with an unquoted key
RECURSIVE IsJsonText(_)
IsJsonText(txt) ==
    /\ txt.t \in {"obj", "arr", "num", "null"}
    /\ \A i \in 1..Len(txt.kids) :
          /\ txt.t = "obj" =>
                /\ txt.kids[i].type = "ObjectProperty"
                /\ txt.kids[i].keyType = "StringLiteral"
          /\ IsJsonText(txt.kids[i].v)

\* typeof x === 'object' && x !== null
IsObjectLike(x) == x.t \in {"obj", "arr"}

\* a canonical array index (a decimal integer below 2^32 - 1 without leading
\* zero): such keys of a JavaScript object are listed first, in ascending
\* numeric order, whatever the order they were set in.  Strings of up to
\* nine digits are all below the limit; longer keys do not occur here.
IsArrayIndex(key) ==
    /\ key # <<>>
    /\ \A i \in 1..Len(key) : IsDigit(key[i])
    /\ (Len(key) = 1 \/ key[1] # 48)
    /\ Len(key) <= 9

HasKey(members, key) == \E i \in 1..Len(members) : members[i].k = key

\* obj[key] = value on the own properties of a JavaScript object
SetProperty(members, key, value) ==
    IF HasKey(members, key)
    THEN [i \in 1..Len(members) |->
            IF members[i].k = key THEN Member(key, value) ELSE members[i]]
    ELSE IF IsArrayIndex(key)
    THEN LET before == Cardinality({i \in 1..Len(members) :
                           /\ IsArrayIndex(members[i].k)
                           /\ parseInt(members[i].k) < parseInt(key)})
         IN  SubSeq(members, 1, before) \o <<Member(key, value)>>
             \o SubSeq(members, before + 1, Len(members))
    ELSE Append(members, Member(key, value))

\* Object.keys(x) of an object, an array or a number
ObjectKeys(x) ==
    IF x.t = "obj" THEN [i \in 1..Len(x.kids) |-> x.kids[i].k]
    ELSE IF x.t = "arr" THEN [i \in 1..Len(x.kids) |-> IndexString(i - 1)]
    ELSE <<>>

\* x[key] for a key of Object.keys(x)
GetProperty(x, key) ==
    IF x.t = "arr" THEN x.kids[parseInt(key) + 1].v
    ELSE LET i == CHOOSE j \in 1..Len(x.kids) : x.kids[j].k = key IN x.kids[i].v

\* JSON.parse of a text that is JSON: the members of an object are set in
\* source order, so a repeated key keeps its first place and its last value
RECURSIVE JSONParse(_)
RECURSIVE ParseMembers(_, _, _)
ParseMembers(members, i, acc) ==
    IF i > Len(members) THEN acc
    ELSE ParseMembers(members, i + 1,
                      SetProperty(acc, members[i].k, JSONParse(members[i].v)))

JSONParse(doc) ==
    IF doc.t = "obj" THEN Obj(ParseMembers(doc.kids, 1, <<>>))
    ELSE IF doc.t = "arr"
    THEN [doc EXCEPT !.kids =
            [i \in 1..Len(doc.kids) |-> Element(JSONParse(doc.kids[i].v))]]
    ELSE doc

\* JSON.stringify(value, null, 2): the own properties in their order
RECURSIVE JSONStringify(_)
JSONStringify(value) ==
    IF IsObjectLike(value)
    THEN [value EXCEPT !.kids =
            [i \in 1..Len(value.kids) |->
                [value.kids[i] EXCEPT !.v = JSONStringify(@)]]]
    ELSE value

----------------------------------------------------------------------------
(* Deduplicator *)

\* deduplicateObject(obj, seen) of the TypeScript plugin: one seen set for
\* the whole document, handed down and filled by every nested call; the
\* result is always a plain object.  Returns the object and the set.
RECURSIVE deduplicateObjectTs(_, _)
RECURSIVE DedupKeysTs(_, _, _, _, _)
DedupKeysTs(obj, ks, i, seen, newObj) ==
    IF i > Len(ks) THEN [obj |-> Obj(newObj), seen |-> seen]
    ELSE LET key == ks[i]
             value == GetProperty(obj, key)
         IN  IF key \in seen THEN DedupKeysTs(obj, ks, i + 1, seen, newObj)
             ELSE IF IsObjectLike(value)
             THEN LET inner == deduplicateObjectTs(value, seen \cup {key})
                  IN  DedupKeysTs(obj, ks, i + 1, inner.seen,
                                  SetProperty(newObj, key, inner.obj))
             ELSE DedupKeysTs(obj, ks, i + 1, seen \cup {key},
                              SetProperty(newObj, key, value))

deduplicateObjectTs(obj, seen) == DedupKeysTs(obj, ObjectKeys(obj), 1, seen, <<>>)

\* deduplicateObject(obj) of the first JavaScript build: the seen set is a
\* variable of the enclosing processJson call, shared by every nested call
deduplicateObjectJs(obj, seen) == DedupKeysTs(obj, ObjectKeys(obj), 1, seen, <<>>)

\* deduplicateObject(obj, parentSeen) of the build with file patterns; every
\* call of the source passes null, which the empty set stands for
RECURSIVE deduplicateObject(_, _)
RECURSIVE DedupKeys(_, _, _, _, _)
DedupKeys(obj, ks, i, seen, newObj) ==
    IF i > Len(ks) THEN Obj(newObj)
    ELSE LET key == ks[i]
             value == GetProperty(obj, key)
         IN  IF key \in seen THEN DedupKeys(obj, ks, i + 1, seen, newObj)
             ELSE DedupKeys(obj, ks, i + 1, seen \cup {key},
                            SetProperty(newObj, key,
                                IF IsObjectLike(value)
                                THEN deduplicateObject(value, {}) ELSE value))

deduplicateObject(obj, parentSeen) ==
    IF obj.t = "arr"
    THEN [obj EXCEPT !.kids =
            [i \in 1..Len(obj.kids) |->
                Element(IF IsObjectLike(obj.kids[i].v)
                        THEN deduplicateObject(obj.kids[i].v, {})
                        ELSE obj.kids[i].v)]]
    ELSE IF ~IsObjectLike(obj) THEN obj
    ELSE DedupKeys(obj, ObjectKeys(obj), 1, parentSeen, <<>>)

----------------------------------------------------------------------------
(* Sorter *)

\* sortObject of the TypeScript plugin and of the first JavaScript build
RECURSIVE sortObjectTs(_, _)
RECURSIVE BuildResultTs(_, _, _, _, _)
BuildResultTs(obj, fn, sortedKs, i, result) ==
    IF i > Len(sortedKs) THEN Obj(result)
    ELSE LET value == GetProperty(obj, sortedKs[i])
         IN  BuildResultTs(obj, fn, sortedKs, i + 1,
                 SetProperty(result, sortedKs[i],
                     IF IsObjectLike(value) THEN sortObjectTs(value, fn) ELSE value))

sortObjectTs(obj, fn) ==
    IF obj.t = "arr"
    THEN [obj EXCEPT !.kids =
            [i \in 1..Len(obj.kids) |->
                Element(IF IsObjectLike(obj.kids[i].v)
                        THEN sortObjectTs(obj.kids[i].v, fn)
                        ELSE obj.kids[i].v)]]
    ELSE BuildResultTs(obj, fn, ArraySort(ObjectKeys(obj), fn), 1, <<>>)

\* sortObject of the build with file patterns
RECURSIVE sortObject(_, _)
RECURSIVE BuildResult(_, _, _, _, _)
BuildResult(obj, fn, sortedKs, i, result) ==
    IF i > Len(sortedKs) THEN Obj(result)
    ELSE LET value == GetProperty(obj, sortedKs[i])
         IN  BuildResult(obj, fn, sortedKs, i + 1,
                 SetProperty(result, sortedKs[i],
                     IF IsObjectLike(value) THEN sortObject(value, fn) ELSE value))

sortObject(obj, fn) ==
    IF obj.t = "arr"
    THEN [obj EXCEPT !.kids =
            [i \in 1..Len(obj.kids) |->
                Element(IF IsObjectLike(obj.kids[i].v)
                        THEN sortObject(obj.kids[i].v, fn)
                        ELSE obj.kids[i].v)]]
    ELSE IF ~IsObjectLike(obj) THEN obj
    ELSE BuildResult(obj, fn, ArraySort(ObjectKeys(obj), fn), 1, <<>>)

\* A result is the text or tree returned, or the error thrown.
Output(doc) == [kind |-> "output", doc |-> doc, error |-> ""]
Thrown(message) == [kind |-> "error", doc |-> Null, error |-> message]

\* assertObjectPropertyTypes(properties) throws.  The messages of the two
\* assertions are kept without the node type they end with.
InvalidProperty(properties) ==
    \E i \in 1..Len(properties) : properties[i].type # "ObjectProperty"

\* assertObjectPropertyKeyType throws during properties.sort.  The assertion
\* is made on the two properties of each comparison; Array.prototype.sort
\* calls the comparator on every element when there are two or more (each
\* is compared with its neighbour while the leading run is measured, or is
\* the pivot of a binary insertion) and not at all when there are fewer.
InvalidKeyCompared(properties) ==
    /\ Len(properties) >= 2
    /\ \E i \in 1..Len(properties) : properties[i].keyType # "StringLiteral"

\* sortAst on the syntax tree: the properties of an ObjectExpression are an
\* array, sorted in place by their key values.  An error thrown in a map
\* callback ends the map and the calls around it.
RECURSIVE sortAst(_, _, _)
RECURSIVE MapElements(_, _, _, _, _)
RECURSIVE MapProperties(_, _, _, _, _)

\* ast.elements.map(...) from the i-th element on; done holds the elements
\* already mapped
MapElements(elements, recursive, sortCompareFunction, i, done) ==
    IF i > Len(elements) THEN Output(Arr(done))
    ELSE LET element == elements[i].v
             sorted == sortAst(element, recursive, sortCompareFunction)
         IN  IF element.t = "null"
             THEN MapElements(elements, recursive, sortCompareFunction, i + 1,
                              Append(done, element))
             ELSE IF element.t = "SpreadElement"
             THEN Thrown("Unreachable; SpreadElement is not allowed in JSON")
             ELSE IF sorted.kind = "error" THEN sorted
             ELSE MapElements(elements, recursive, sortCompareFunction, i + 1,
                              Append(done, sorted.doc))

\* sortedProperties.map(...) from the i-th property on
MapProperties(sortedProperties, recursive, sortCompareFunction, i, done) ==
    IF i > Len(sortedProperties) THEN Output(Obj(done))
    ELSE LET property == sortedProperties[i]
             sorted == sortAst(property.v, recursive, sortCompareFunction)
         IN  IF ~IsObjectLike(property.v)
             THEN MapProperties(sortedProperties, recursive, sortCompareFunction,
                                i + 1, Append(done, property))
             ELSE IF sorted.kind = "error" THEN sorted
             ELSE MapProperties(sortedProperties, recursive, sortCompareFunction,
                                i + 1,
                                Append(done, [property EXCEPT !.v = sorted.doc]))

sortAst(ast, recursive, sortCompareFunction) ==
    IF ast.t = "arr" /\ recursive
    THEN MapElements(ast.kids, recursive, sortCompareFunction, 1, <<>>)
    ELSE IF ast.t = "obj"
    THEN LET properties == ast.kids
         IN  IF InvalidProperty(properties)
             THEN Thrown("Property type not supported")
             ELSE IF InvalidKeyCompared(properties)
             THEN Thrown("Object property key type not supported")
             ELSE LET p == SortPermutation(
                               [i \in 1..Len(properties) |-> properties[i].k],
                               sortCompareFunction)
                      sortedProperties ==
                          [i \in 1..Len(properties) |-> properties[p[i]]]
                  IN  IF recursive
                      THEN MapProperties(sortedProperties, recursive,
                                         sortCompareFunction, 1, <<>>)
                      ELSE Output(Obj(sortedProperties))
    ELSE Output(ast)

----------------------------------------------------------------------------
(* File patterns *)

\* the text cut at every comma (44)
RECURSIVE SplitComma(_, _)
SplitComma(s, current) ==
    IF s = <<>> THEN <<current>>
    ELSE IF Head(s) = 44 THEN <<current>> \o SplitComma(Tail(s), <<>>)
    ELSE SplitComma(Tail(s), Append(current, Head(s)))

\* String.prototype.trim for blanks (32)
RECURSIVE Trim(_)
Trim(s) ==
    IF s = <<>> THEN s
    ELSE IF Head(s) = 32 THEN Trim(Tail(s))
    ELSE IF s[Len(s)] = 32 THEN Trim(SubSeq(s, 1, Len(s) - 1))
    ELSE s

\* the regular expression the chain of replace calls builds from a glob, as
\* a sequence of atoms: "." (46) a literal dot, "**" (42 42) any run of
\* characters, "*" any run without "/" (47), "?" (63) any character, any
\* other character itself
RECURSIVE GlobToRegex(_)
GlobToRegex(g) ==
    IF g = <<>> THEN <<>>
    ELSE IF Len(g) >= 2 /\ g[1] = 42 /\ g[2] = 42
    THEN <<[atom |-> "anyRun", c |-> 0]>> \o GlobToRegex(SubSeq(g, 3, Len(g)))
    ELSE IF g[1] = 42
    THEN <<[atom |-> "nonSlashRun", c |-> 0]>> \o GlobToRegex(Tail(g))
    ELSE IF g[1] = 63
    THEN <<[atom |-> "any", c |-> 0]>> \o GlobToRegex(Tail(g))
    ELSE <<[atom |-> "char", c |-> g[1]]>> \o GlobToRegex(Tail(g))

\* the atoms match a prefix of s
RECURSIVE MatchesHere(_, _)
MatchesHere(atoms, s) ==
    IF atoms = <<>> THEN TRUE
    ELSE LET first == Head(atoms)
         IN  CASE first.atom = "char" ->
                    s # <<>> /\ Head(s) = first.c /\ MatchesHere(Tail(atoms), Tail(s))
               [] first.atom = "any" ->
                    s # <<>> /\ MatchesHere(Tail(atoms), Tail(s))
               [] first.atom = "anyRun" ->
                    \E n \in 0..Len(s) :
                        MatchesHere(Tail(atoms), SubSeq(s, n + 1, Len(s)))
               [] first.atom = "nonSlashRun" ->
                    \E n \in 0..Len(s) :
                        /\ \A i \in 1..n : s[i] # 47
                        /\ MatchesHere(Tail(atoms), SubSeq(s, n + 1, Len(s)))

\* regex.test(filepath): the expression is not anchored
RegexTest(atoms, s) ==
    \E start \in 1..(Len(s) + 1) : MatchesHere(atoms, SubSeq(s, start, Len(s)))

matchesFilePattern(filepath, pattern) ==
    IF pattern = <<>> \/ filepath = <<>> THEN TRUE
    ELSE LET patterns == SplitComma(pattern, <<>>)
         IN  \E i \in 1..Len(patterns) :
                RegexTest(GlobToRegex(Trim(patterns[i])), filepath)

----------------------------------------------------------------------------
(* Options.  jsonRecursiveSort is [type |-> typeof, value |-> the boolean]; *)
(* filepath and jsonFilePattern are strings, empty when not set.           *)

BoolOption(b) == [type |-> "boolean", value |-> b]
StringOption == [type |-> "string", value |-> FALSE]

Problem(message) ==
    [ok |-> FALSE, error |-> message, jsonRecursiveSort |-> FALSE,
     jsonSortOrder |-> Undefined]

AllowedEntry(e) == e.t = "null" \/ (e.t = "str" /\ e.s \in PolicyNames)

\* parseOptions: the parsed options, or the error it throws
parseOptions(prettierOptions) ==
    LET rawJsonSortOrder == prettierOptions.jsonSortOrder
    IN  IF prettierOptions.jsonRecursiveSort.type # "boolean"
        THEN Problem("Invalid 'jsonRecursiveSort' option")
        ELSE IF rawJsonSortOrder.form = "undefined"
        THEN [ok |-> TRUE, error |-> "",
              jsonRecursiveSort |-> prettierOptions.jsonRecursiveSort.value,
              jsonSortOrder |-> Undefined]
        ELSE IF ~OptionParses(rawJsonSortOrder)
        THEN Problem("Failed to parse sort order option as JSON")
        ELSE IF rawJsonSortOrder.form = "array"
        THEN Problem("Invalid custom sort order; must be an object")
        ELSE IF \E i \in 1..Len(rawJsonSortOrder.entries) :
                    ~AllowedEntry(rawJsonSortOrder.entries[i])
        THEN Problem("Invalid custom sort entry")
        ELSE [ok |-> TRUE, error |-> "",
              jsonRecursiveSort |-> prettierOptions.jsonRecursiveSort.value,
              jsonSortOrder |-> rawJsonSortOrder]

applyDefaultOptions(parsed) ==
    [jsonRecursiveSort |-> parsed.jsonRecursiveSort,
     jsonSortOrder |-> IF parsed.jsonSortOrder.form = "undefined"
                       THEN Word("lexical") ELSE parsed.jsonSortOrder]

----------------------------------------------------------------------------
(* Entry points *)

\* processJson of the TypeScript plugin.  JSON.parse throws on a text that
\* is not JSON and Object.keys throws on null: both are caught.
processJsonTs(txt, opts) ==
    IF ~IsJsonText(txt) THEN txt
    ELSE LET json == JSONParse(txt)
         IN  IF json.t = "null" THEN txt
             ELSE LET deduplicatedJson == deduplicateObjectTs(json, {}).obj
                      sortFunction == createSortFunction(opts.jsonSortOrder)
                  IN  JSONStringify(sortObjectTs(deduplicatedJson, sortFunction))

\* processJson of the first JavaScript build
processJsonJs(txt, opts) ==
    IF ~IsJsonText(txt) THEN txt
    ELSE LET json == JSONParse(txt)
         IN  IF json.t = "null" THEN txt
             ELSE LET deduplicatedJson == deduplicateObjectJs(json, {}).obj
                      sortFunction == createSortFunction(opts.jsonSortOrder)
                  IN  JSONStringify(sortObjectTs(deduplicatedJson, sortFunction))

\* processJson of the build with file patterns
processJson(txt, opts) ==
    IF ~IsJsonText(txt) THEN txt
    ELSE IF opts.jsonFilePattern # <<>>
            /\ ~matchesFilePattern(opts.filepath, opts.jsonFilePattern)
    THEN JSONStringify(JSONParse(txt))
    ELSE LET json == JSONParse(txt)
             deduplicatedJson == deduplicateObject(json, {})
             sortFunction == createSortFunction(opts.jsonSortOrder)
         IN  JSONStringify(sortObject(deduplicatedJson, sortFunction))

\* parser.parse of the wrapped parser: the syntax tree of the text, every
\* member of every object in source order
RECURSIVE parserParse(_)
parserParse(txt) ==
    IF IsObjectLike(txt)
    THEN [txt EXCEPT !.kids =
            [i \in 1..Len(txt.kids) |->
                [txt.kids[i] EXCEPT !.v = parserParse(@)]]]
    ELSE txt

\* parse of the parser createParser returns
createParserParse(txt, opts) ==
    IF txt.t = "bad" THEN Thrown("SyntaxError")
    ELSE LET ast == parserParse(txt)
             parsed == parseOptions(opts)
         IN  IF ~parsed.ok THEN Thrown(parsed.error)
             ELSE LET defaulted == applyDefaultOptions(parsed)
                      sortCompareFunction ==
                          createSortCompareFunction(defaulted.jsonSortOrder)
                  IN  sortAst(ast, defaulted.jsonRecursiveSort, sortCompareFunction)

----------------------------------------------------------------------------
(* The inputs of the model *)

SeqsUpTo(S, n) == UNION {[1..m -> S] : m \in 1..n}

\* the object whose i-th member, in source order, has key ks[i] and value i
FlatObject(ks) == Obj([i \in 1..Len(ks) |-> Member(ks[i], Num(i))])

\* "a", "b", "A", "0"
FlatKeys == {<<97>>, <<98>>, <<65>>, <<48>>}
\* "c", "z"
TopKeys == {<<99>>, <<122>>}
\* "z", "y"
NestedKeys == {<<122>>, <<121>>}

FlatDocuments == {FlatObject(ks) : ks \in SeqsUpTo(FlatKeys, MaxProps)}

NestedObjects == {FlatObject(ks) : ks \in SeqsUpTo(NestedKeys, MaxNested)}

NestedArrays ==
    {Arr(<<Num(2), Null, Num(1)>>)} \cup {Arr(<<Num(2), o>>) : o \in NestedObjects}

\* the flat object of ks with the value of its j-th member replaced
Nest(ks, j, nested) ==
    Obj([i \in 1..Len(ks) |->
            Member(ks[i], IF i = j THEN nested ELSE Num(i))])

NestedDocuments ==
    {Nest(ks, j, nested) :
        ks \in SeqsUpTo(TopKeys, MaxTop), j \in 1..MaxTop,
        nested \in NestedObjects \cup NestedArrays}

\* texts that are not JSON and that a wrapped parser may still read: a: 1
\* (the key an Identifier; the json parser of prettier reads it), "b": 2
\* and ...x
LooseProperties ==
    {Property(<<97>>, "Identifier", Num(1)), Member(<<98>>, Num(2)), SpreadProperty}

LooseObjects == {Obj(ps) : ps \in SeqsUpTo(LooseProperties, MaxLoose)}

LooseDocuments ==
    LooseObjects
    \cup {Obj(<<Member(<<99>>, o)>>) : o \in LooseObjects}
    \cup {Arr(<<Num(2), o>>) : o \in LooseObjects}
    \cup {Arr(<<SpreadElement>>)}

Documents ==
    FlatDocuments \cup NestedDocuments \cup LooseDocuments
    \cup {Null, Num(1), Arr(<<Num(2), Num(1)>>), NotJson}

\* "a.json", "a.config.json" and the pattern "*.config.json"
PathPlain == <<97, 46, 106, 115, 111, 110>>
PathConfig == <<97, 46, 99, 111, 110, 102, 105, 103, 46, 106, 115, 111, 110>>
PatternConfig == <<42, 46, 99, 111, 110, 102, 105, 103, 46, 106, 115, 111, 110>>

Options(recursive, order, path, pattern) ==
    [jsonRecursiveSort |-> recursive, jsonSortOrder |-> order,
     filepath |-> path, jsonFilePattern |-> pattern]

\* custom order maps over the keys of the documents
CustomOrders ==
    { JsonObjectText(<<StrEntry(<<97>>, "reverseLexical"), NullEntry(<<98>>)>>),
      JsonObjectText(<<StrEntry(<<122>>, "numeric")>>) }

InvalidOrders ==
    { Word("bogus"), BrokenText, JsonArrayText,
      JsonObjectText(<<StrEntry(<<97>>, "bogus")>>),
      JsonObjectText(<<NumEntry(<<97>>)>>) }

OptionSets ==
    {Options(BoolOption(r), o, PathPlain, <<>>) :
        r \in BOOLEAN, o \in {Undefined} \cup {Word(w) : w \in PolicyNames}}
    \cup {Options(BoolOption(FALSE), o, PathPlain, <<>>) :
            o \in CustomOrders \cup InvalidOrders}
    \cup {Options(StringOption, Undefined, PathPlain, <<>>)}
    \cup {Options(BoolOption(FALSE), Undefined, path, PatternConfig) :
            path \in {PathPlain, PathConfig, <<>>}}

\* "item1", "item2", "item10", "1x", "2x", "10x", "a", "A"
CompareKeys ==
    { <<105, 116, 101, 109, 49>>, <<105, 116, 101, 109, 50>>,
      <<105, 116, 101, 109, 49, 48>>,
      <<49, 120>>, <<50, 120>>, <<49, 48, 120>>, <<97>>, <<65>> }

\* arrays of pairwise different keys
KeyArrays ==
    {ks \in SeqsUpTo(CompareKeys, MaxKeys) :
        \A i, j \in 1..Len(ks) : i # j => ks[i] # ks[j]}

SortOrders ==
    {Word(w) : w \in PolicyNames \cup {"bogus"}}
    \cup { JsonObjectText(<<StrEntry(<<49, 48, 120>>, "numeric"),
                            StrEntry(<<50, 120>>, "numeric")>>),
           JsonObjectText(<<StrEntry(<<49, 48, 120>>, "reverseNumeric"),
                            StrEntry(<<50, 120>>, "reverseNumeric")>>),
           JsonObjectText(<<StrEntry(<<105, 116, 101, 109, 49, 48>>, "numeric"),
                            NullEntry(<<97>>)>>) }

----------------------------------------------------------------------------
(* The plugin run on a document *)

Init ==
    /\ text \in Documents
    /\ options \in OptionSets
    /\ via = "none"
    /\ hist = <<>>
    /\ keys = <<>>
    /\ sortOrder = Undefined
    /\ sortedKeys = <<>>
    /\ pc = "idle"

\* the text of this run: the document, or what the last run printed
Input == IF hist = <<>> THEN text ELSE hist[Len(hist)].doc

CanRun(entry) ==
    /\ pc = "idle"
    /\ via \in {"none", entry}
    /\ Len(hist) < MaxRuns
    /\ hist # <<>> => hist[Len(hist)].kind = "output"

RunProcessJsonTs ==
    /\ CanRun("processJsonTs")
    /\ hist' = Append(hist, Output(processJsonTs(Input, options)))
    /\ via' = "processJsonTs"
    /\ UNCHANGED <<text, options, keys, sortOrder, sortedKeys, pc>>

RunProcessJsonJs ==
    /\ CanRun("processJsonJs")
    /\ hist' = Append(hist, Output(processJsonJs(Input, options)))
    /\ via' = "processJsonJs"
    /\ UNCHANGED <<text, options, keys, sortOrder, sortedKeys, pc>>

RunProcessJson ==
    /\ CanRun("processJson")
    /\ hist' = Append(hist, Output(processJson(Input, options)))
    /\ via' = "processJson"
    /\ UNCHANGED <<text, options, keys, sortOrder, sortedKeys, pc>>

RunParse ==
    /\ CanRun("parse")
    /\ hist' = Append(hist, createParserParse(Input, options))
    /\ via' = "parse"
    /\ UNCHANGED <<text, options, keys, sortOrder, sortedKeys, pc>>

Next == RunProcessJsonTs \/ RunProcessJsonJs \/ RunProcessJson \/ RunParse

Spec == Init /\ [][Next]_vars

----------------------------------------------------------------------------
(* An array of keys sorted on its own *)

InitKeys ==
    /\ text = Null
    /\ options = Options(BoolOption(FALSE), Undefined, <<>>, <<>>)
    /\ via = "none"
    /\ hist = <<>>
    /\ keys \in KeyArrays
    /\ sortOrder \in SortOrders
    /\ sortedKeys = <<>>
    /\ pc = "keys"

SortKeys ==
    /\ pc = "keys"
    /\ sortedKeys' = ArraySort(keys, createSortCompareFunction(sortOrder))
    /\ pc' = "sorted"
    /\ UNCHANGED <<text, options, via, hist, keys, sortOrder>>

NextKeys == SortKeys

SpecKeys == InitKeys /\ [][NextKeys]_vars

----------------------------------------------------------------------------
(* Properties *)

ProcessJsonEntries == {"processJsonTs", "processJsonJs", "processJson"}

\* the first run has ended and returned a text or tree
Returned == hist # <<>> /\ hist[1].kind = "output"

\* processJson took the path parse, deduplicate, sort, stringify
Transformed ==
    /\ Returned
    /\ IsJsonText(text)
    /\ \/ via \in {"processJsonTs", "processJsonJs"}
       \/ /\ via = "processJson"
          /\ \/ options.jsonFilePattern = <<>>
             \/ matchesFilePattern(options.filepath, options.jsonFilePattern)

\* the first member of an object text with the given key
FirstMember(doc, key) ==
    doc.kids[CHOOSE i \in 1..Len(doc.kids) :
                /\ doc.kids[i].k = key
                /\ \A j \in 1..(i - 1) : doc.kids[j].k # key]

RECURSIVE NoDuplicateKeys(_)
NoDuplicateKeys(doc) ==
    /\ doc.t = "obj" =>
          \A i, j \in 1..Len(doc.kids) : i # j => doc.kids[i].k # doc.kids[j].k
    /\ \A i \in 1..Len(doc.kids) : NoDuplicateKeys(doc.kids[i].v)

\* out lists every key of every object of doc once, with what became of the
\* value of the key's first occurrence; scalars are unchanged
RECURSIVE KeepsFirst(_, _)
KeepsFirst(doc, out) ==
    IF doc.t = "obj"
    THEN /\ out.t = "obj"
         /\ \A i \in 1..Len(doc.kids) :
               LET key == doc.kids[i].k
                   at == {j \in 1..Len(out.kids) : out.kids[j].k = key}
               IN  /\ Cardinality(at) = 1
                   /\ \A j \in at : KeepsFirst(FirstMember(doc, key).v, out.kids[j].v)
    ELSE IF doc.t = "arr"
    THEN /\ out.t = "arr"
         /\ Len(out.kids) = Len(doc.kids)
         /\ \A i \in 1..Len(doc.kids) : KeepsFirst(doc.kids[i].v, out.kids[i].v)
    ELSE out = doc

\* C1: whenever processJson has parsed, deduplicated, sorted and printed a
\* document, every key of every object is printed once and carries the value
\* of its first occurrence in source order, whatever the sort policy.
C1_FirstOccurrenceKept ==
    (Transformed /\ via = "processJson" /\ Len(hist) = 1)
        => KeepsFirst(text, hist[1].doc)

\* every key of every object of doc, nested ones included, is a key of the
\* object out has in the same place
RECURSIVE KeysSurvive(_, _)
KeysSurvive(doc, out) ==
    IF doc.t = "obj"
    THEN /\ out.t = "obj"
         /\ \A i \in 1..Len(doc.kids) :
               \E j \in 1..Len(out.kids) :
                   /\ out.kids[j].k = doc.kids[i].k
                   /\ KeysSurvive(doc.kids[i].v, out.kids[j].v)
    ELSE IF doc.t = "arr" /\ out.t = "arr" /\ Len(out.kids) = Len(doc.kids)
    THEN \A i \in 1..Len(doc.kids) : KeysSurvive(doc.kids[i].v, out.kids[i].v)
    ELSE TRUE

\* C2: deduplication is per object: when no object of the document repeats a
\* key, processJson drops no key, so every key of every nested object is
\* still there in the output, also a key that an ancestor object has too.
C2_PerObjectScope ==
    (Transformed /\ Len(hist) = 1 /\ text.t = "obj" /\ NoDuplicateKeys(text))
        => KeysSurvive(text, hist[1].doc)

\* C3: in the tree the plugin's parse returns, no object has two properties
\* with the same key.
C3_DistinctKeysAfterParse ==
    (via = "parse" /\ Returned) => NoDuplicateKeys(hist[1].doc)

\* every array of doc is in out an array of the same length, element by
\* element; objects are compared key by key, scalars are unchanged
RECURSIVE ArraysKept(_, _)
ArraysKept(doc, out) ==
    IF doc.t = "arr"
    THEN /\ out.t = "arr"
         /\ Len(out.kids) = Len(doc.kids)
         /\ \A i \in 1..Len(doc.kids) : ArraysKept(doc.kids[i].v, out.kids[i].v)
    ELSE IF doc.t = "obj"
    THEN /\ out.t = "obj"
         /\ \A j \in 1..Len(out.kids) :
               \E i \in 1..Len(doc.kids) :
                   /\ doc.kids[i].k = out.kids[j].k
                   /\ ArraysKept(doc.kids[i].v, out.kids[j].v)
    ELSE out = doc

\* C4: every array of the document is in the output an array with the same
\* length and the same elements in the same order, at every depth, for every
\* entry point and every option setting.
C4_ArraysKept ==
    (Returned /\ Len(hist) = 1 /\ IsObjectLike(text)) => ArraysKept(text, hist[1].doc)

\* the keys out shares with doc are in the order doc has them, in every
\* object below
RECURSIVE OrderKept(_, _)
OrderKept(doc, out) ==
    IF doc.t = "obj" /\ out.t = "obj"
    THEN /\ \A i1, i2 \in 1..Len(doc.kids) : \A j1, j2 \in 1..Len(out.kids) :
               (/\ i1 < i2
                /\ out.kids[j1].k = doc.kids[i1].k
                /\ out.kids[j2].k = doc.kids[i2].k) => j1 < j2
         /\ \A i \in 1..Len(doc.kids) : \A j \in 1..Len(out.kids) :
               out.kids[j].k = doc.kids[i].k
                   => OrderKept(doc.kids[i].v, out.kids[j].v)
    ELSE IF doc.t = "arr" /\ out.t = "arr" /\ Len(out.kids) = Len(doc.kids)
    THEN \A i \in 1..Len(doc.kids) : OrderKept(doc.kids[i].v, out.kids[i].v)
    ELSE TRUE

\* C5: with jsonRecursiveSort false only the keys of the top-level object
\* are reordered: the keys of every object below it keep their order.
C5_NonRecursiveScope ==
    (/\ Returned
     /\ Len(hist) = 1
     /\ options.jsonRecursiveSort = BoolOption(FALSE)
     /\ text.t = "obj"
     /\ NoDuplicateKeys(text)
     /\ hist[1].doc.t = "obj")
        => \A i \in 1..Len(text.kids) : \A j \in 1..Len(hist[1].doc.kids) :
              hist[1].doc.kids[j].k = text.kids[i].k
                  => OrderKept(text.kids[i].v, hist[1].doc.kids[j].v)

\* C6: a document without repeated keys that has been transformed is left as
\* it is by a second run with the same options, under every sort policy.
C6_Idempotent ==
    (/\ Len(hist) = 2
     /\ hist[1].kind = "output"
     /\ hist[2].kind = "output"
     /\ NoDuplicateKeys(text))
        => hist[2].doc = hist[1].doc

\* the characters of a key that are not digits, and those that are
RECURSIVE NonDigits(_)
NonDigits(s) ==
    IF s = <<>> THEN <<>>
    ELSE IF IsDigit(Head(s)) THEN NonDigits(Tail(s))
    ELSE <<Head(s)>> \o NonDigits(Tail(s))

RECURSIVE Digits(_)
Digits(s) ==
    IF s = <<>> THEN <<>>
    ELSE IF IsDigit(Head(s)) THEN <<Head(s)>> \o Digits(Tail(s))
    ELSE Digits(Tail(s))

Item1 == <<105, 116, 101, 109, 49>>
Item2 == <<105, 116, 101, 109, 50>>
Item10 == <<105, 116, 101, 109, 49, 48>>

SortedNumeric == pc = "sorted" /\ sortOrder = Word("numeric")

\* C7 as stated: under policy numeric, ["item10","item2","item1"] is sorted
\* to ["item1","item2","item10"], and keys with the same non-digit stem are
\* ordered by the integer value of the number attached to it.
C7_StemNumberOrder ==
    SortedNumeric =>
        /\ keys = <<Item10, Item2, Item1>> => sortedKeys = <<Item1, Item2, Item10>>
        /\ \A i, j \in 1..Len(sortedKeys) :
              (/\ i < j
               /\ NonDigits(sortedKeys[i]) = NonDigits(sortedKeys[j])
               /\ Digits(sortedKeys[i]) # <<>>
               /\ Digits(sortedKeys[j]) # <<>>)
                  => parseInt(Digits(sortedKeys[i])) <= parseInt(Digits(sortedKeys[j]))

\* C7 amended: under policy numeric, ["item10","item2","item1"] is sorted to
\* ["item1","item10","item2"] (no key starts with a digit, so the whole
\* strings are compared), and keys that start with decimal numbers of
\* different integer values are ordered by the value of that leading number.
C7_LeadingNumberOrder ==
    SortedNumeric =>
        /\ keys = <<Item10, Item2, Item1>> => sortedKeys = <<Item1, Item10, Item2>>
        /\ \A i, j \in 1..Len(sortedKeys) :
              (/\ i < j
               /\ integerPrefix(sortedKeys[i]) # <<>>
               /\ integerPrefix(sortedKeys[j]) # <<>>
               /\ parseInt(integerPrefix(sortedKeys[i]))
                    # parseInt(integerPrefix(sortedKeys[j])))
                  => parseInt(integerPrefix(sortedKeys[i]))
                        < parseInt(integerPrefix(sortedKeys[j]))

\* ["10x","2x","1x"] has been sorted to ["1x","2x","10x"] under numeric
C7_Witness ==
    /\ SortedNumeric
    /\ keys = <<<<49, 48, 120>>, <<50, 120>>, <<49, 120>>>>
    /\ sortedKeys = <<<<49, 120>>, <<50, 120>>, <<49, 48, 120>>>>

\* C8: with a custom order map, two keys that are both assigned numeric and
\* have different leading integers are sorted by the value of those integers
\* (both assigned reverseNumeric: by descending value).
C8_CustomNumericBuckets ==
    (pc = "sorted" /\ sortOrder.form = "json") =>
        \A i, j \in 1..Len(sortedKeys) :
            LET a == sortedKeys[i]
                b == sortedKeys[j]
                aEntry == EntryOf(sortOrder.entries, a)
                aPrefix == parseInt(integerPrefix(a))
                bPrefix == parseInt(integerPrefix(b))
            IN  (/\ i < j
                 /\ aEntry = EntryOf(sortOrder.entries, b)
                 /\ aEntry \in {"numeric", "reverseNumeric"}
                 /\ integerPrefix(a) # <<>>
                 /\ integerPrefix(b) # <<>>
                 /\ aPrefix # bPrefix)
                    => IF aEntry = "numeric" THEN aPrefix < bPrefix
                       ELSE aPrefix > bPrefix

\* C9: a sort order option that is one of the nine policy names raises no
\* error in the plugin's parse, which returns the tree sorted with the
\* registry comparator of that name.
C9_PolicyNameAccepted ==
    (/\ via = "parse"
     /\ Len(hist) = 1
     /\ IsJsonText(text)
     /\ options.jsonRecursiveSort.type = "boolean"
     /\ options.jsonSortOrder.form = "word"
     /\ options.jsonSortOrder.word \in PolicyNames)
        => /\ hist[1].kind = "output"
           /\ hist[1] = sortAst(parserParse(text),
                                options.jsonRecursiveSort.value,
                                [custom |-> FALSE,
                                 fn |-> categorySortFunctions(
                                            options.jsonSortOrder.word),
                                 entries |-> <<>>])

InvalidConfiguration(o) ==
    \/ o.jsonRecursiveSort.type # "boolean"
    \/ o.jsonSortOrder.form = "word" /\ o.jsonSortOrder.word \notin PolicyNames
    \/ o.jsonSortOrder.form \in {"broken", "array"}
    \/ /\ o.jsonSortOrder.form = "json"
       /\ \E i \in 1..Len(o.jsonSortOrder.entries) :
             ~AllowedEntry(o.jsonSortOrder.entries[i])

ConfigurationErrors ==
    { "Invalid 'jsonRecursiveSort' option",
      "Failed to parse sort order option as JSON",
      "Invalid custom sort order; must be an object",
      "Invalid custom sort entry" }

\* C10: every run whose options are invalid ends in a configuration error
\* and returns no output, for every entry point.
C10_InvalidConfigurationRejected ==
    (Len(hist) = 1 /\ InvalidConfiguration(options))
        => /\ hist[1].kind = "error"
           /\ hist[1].error \in ConfigurationErrors

\* a file pattern is supplied and the path of the document matches none of
\* its comma-separated patterns
PatternUnmatched ==
    /\ options.jsonFilePattern # <<>>
    /\ ~matchesFilePattern(options.filepath, options.jsonFilePattern)

\* C11: when a file pattern is supplied and the path matches none of its
\* patterns, processJson returns the document untouched: every key
\* occurrence of the input, repeated keys and their values included, is in
\* the output in the original order.
C11_UnmatchedPatternUntouched ==
    (/\ via = "processJson"
     /\ Len(hist) = 1
     /\ PatternUnmatched)
        => hist[1] = Output(text)

\* a step of the entry point raises an error on the text: JSON.parse on a
\* text that is not JSON, Object.keys(null) in the builds that call it
StepRaises(entry, txt) ==
    \/ ~IsJsonText(txt)
    \/ /\ entry \in {"processJsonTs", "processJsonJs"}
       /\ JSONParse(txt).t = "null"

\* the serialization of the tree after the entry point's de-duplication and
\* sort have both run on all of it
DeduplicatedAndSorted(entry, txt, opts) ==
    LET json == JSONParse(txt)
        sortFunction == createSortFunction(opts.jsonSortOrder)
    IN  IF entry = "processJsonTs"
        THEN JSONStringify(sortObjectTs(deduplicateObjectTs(json, {}).obj,
                                        sortFunction))
        ELSE IF entry = "processJsonJs"
        THEN JSONStringify(sortObjectTs(deduplicateObjectJs(json, {}).obj,
                                        sortFunction))
        ELSE JSONStringify(sortObject(deduplicateObject(json, {}), sortFunction))

\* C12: processJson never throws and never returns a partial result: for
\* every text and options its result is the serialization of the fully
\* de-duplicated and sorted tree or the original text, and it is the
\* original text when a step raises an error.
C12_AllOrNothing ==
    (via \in ProcessJsonEntries /\ Len(hist) = 1)
        => /\ hist[1].kind = "output"
           /\ hist[1].doc \in {text, DeduplicatedAndSorted(via, text, options)}
           /\ StepRaises(via, text) => hist[1].doc = text

\* the arrays that hold the same keys as ks, in every order
Permutations(ks) ==
    {p \in [1..Len(ks) -> {ks[i] : i \in 1..Len(ks)}] :
        \A i, j \in 1..Len(ks) : i # j => p[i] # p[j]}

\* C13: every comparator of the registry other than none is antisymmetric
\* on distinct keys: cmp(a, b) and cmp(b, a) are non-zero and of opposite
\* signs, so the sorted order of an array of unique keys does not depend
\* on the order the keys came in.
C13_Antisymmetric ==
    (/\ pc = "sorted"
     /\ sortOrder.form = "word"
     /\ sortOrder.word \in PolicyNames \ {"none"})
        => LET cmp == createSortCompareFunction(sortOrder)
           IN  /\ \A i, j \in 1..Len(keys) :
                     i # j => CallCompare(cmp, keys[i], keys[j])
                                * CallCompare(cmp, keys[j], keys[i]) < 0
               /\ \A p \in Permutations(keys) : ArraySort(p, cmp) = sortedKeys

\* a property that is not an ObjectProperty, or whose key is not a
\* StringLiteral
StructuralFlaw(property) ==
    property.type # "ObjectProperty" \/ property.keyType # "StringLiteral"

\* sortAst processes an ObjectExpression of the tree that has such a
\* property: the tree itself, or with recursive one nested in it
RECURSIVE SortsFlawedObject(_, _)
SortsFlawedObject(ast, recursive) ==
    \/ /\ ast.t = "obj"
       /\ \E i \in 1..Len(ast.kids) : StructuralFlaw(ast.kids[i])
    \/ /\ ast.t \in {"obj", "arr"}
       /\ recursive
       /\ \E i \in 1..Len(ast.kids) : SortsFlawedObject(ast.kids[i].v, recursive)

StructuralErrors ==
    {"Property type not supported", "Object property key type not supported"}

\* C14: whenever sortAst processes an ObjectExpression with a property that
\* is not an ObjectProperty or whose key is not a StringLiteral, it throws
\* an error instead of returning a tree, whatever the number of properties
\* of that object.
C14_StructuralErrorsThrown ==
    (/\ via = "parse"
     /\ Len(hist) = 1
     /\ text.t # "bad"
     /\ parseOptions(options).ok
     /\ SortsFlawedObject(parserParse(text), options.jsonRecursiveSort.value))
        => /\ hist[1].kind = "error"
           /\ hist[1].error \in StructuralErrors

====
